---- MODULE Spec2Model ----
(***************************************************************************)
(* Model of the Notion relay handler (api/events): the property accessors, *)
(* property-name lookup, parseEvent and the paginating request handler.    *)
(* The repository holds three copies of the handler module:                *)
(*   "findProp" : src/api/events.js lines 1-134  (findProp, emoji strip,   *)
(*                de-duplication, debug mode)                              *)
(*   "plain"    : src/api/events.js lines 136-222                          *)
(*   "sorted"   : src/unnamed/part_000 (sorted query, hints)               *)
(* Strings are sequences of code points; a property key is a sequence of   *)
(* tokens in which " " is a whitespace character.  Non-ASCII property      *)
(* names are written in romanised form ("jp:...").                         *)
(***************************************************************************)
EXTENDS Naturals, Sequences, FiniteSets

VARIABLES variant, env, req, pc, allResults, hasMore, startCursor,
          queries, responses, res, page, event

vars == <<variant, env, req, pc, allResults, hasMore, startCursor,
          queries, responses, res, page, event>>

Variants == {"findProp", "plain", "sorted"}

(***************************************************************************)
(* Bounds of the model.                                                    *)
(***************************************************************************)
MaxResults == 2
MaxQueries == 3
MaxProps == 2

(***************************************************************************)
(* JavaScript values returned by the accessors.                            *)
(***************************************************************************)
Str(s) == [t |-> "string", s |-> s, a |-> <<>>]
Arr(a) == [t |-> "array", s |-> <<>>, a |-> a]
Null == [t |-> "null", s |-> <<>>, a |-> <<>>]
Throw == [t |-> "throw", s |-> <<>>, a |-> <<>>]

\* JavaScript truthiness: "" and null are falsy, every array is truthy.
Truthy(v) ==
  CASE v.t = "string" -> v.s # <<>>
    [] v.t = "array" -> TRUE
    [] OTHER -> FALSE

RECURSIVE Join(_)
Join(frags) == IF frags = <<>> THEN <<>> ELSE Head(frags) \o Join(Tail(frags))

RECURSIVE JoinComma(_)
JoinComma(names) ==
  IF names = <<>> THEN <<>>
  ELSE IF Len(names) = 1 THEN names[1]
  ELSE names[1] \o <<",", " ">> \o JoinComma(Tail(names))

Digit(n) == <<"0", "1", "2", "3", "4", "5", "6", "7", "8", "9">>[n + 1]

RECURSIVE NumText(_)
NumText(n) == IF n < 10 THEN <<Digit(n)>> ELSE NumText(n \div 10) \o <<Digit(n % 10)>>

(***************************************************************************)
(* Property values.  type is the kind tag ("absent" stands for a missing   *)
(* property, undefined or null); ok is FALSE when the payload under the    *)
(* tag is missing or null.                                                 *)
(***************************************************************************)
Prop(type, ok, texts, files, num) ==
  [type |-> type, ok |-> ok, texts |-> texts, files |-> files, num |-> num]

Absent == Prop("absent", FALSE, <<>>, <<>>, 0)

getTitle(prop) ==
  IF prop.type # "title" THEN Str(<<>>)
  ELSE IF ~prop.ok THEN Throw
  ELSE Str(Join(prop.texts))

getSelect(prop) ==
  IF prop.type # "select" \/ ~prop.ok THEN Str(<<>>)
  ELSE Str(prop.texts[1])

getMultiSelect(prop) ==
  IF prop.type # "multi_select" THEN Arr(<<>>)
  ELSE IF ~prop.ok THEN Throw
  ELSE Arr(prop.texts)

getDate(prop) ==
  IF prop.type # "date" \/ ~prop.ok THEN Null
  ELSE IF prop.texts[1] = <<>> THEN Null ELSE Str(prop.texts[1])

getDateEnd(prop) ==
  IF prop.type # "date" \/ ~prop.ok THEN Null
  ELSE IF prop.texts[2] = <<>> THEN Null ELSE Str(prop.texts[2])

getUrl(prop) ==
  IF prop.type # "url" THEN Str(<<>>)
  ELSE IF ~prop.ok THEN Str(<<>>) ELSE Str(prop.texts[1])

getRichText(prop) ==
  IF prop.type # "rich_text" THEN Str(<<>>)
  ELSE IF ~prop.ok THEN Throw
  ELSE Str(Join(prop.texts))

getFiles(prop) ==
  IF prop.type # "files" THEN Str(<<>>)
  ELSE IF ~prop.ok THEN Throw
  ELSE IF prop.files = <<>> THEN Str(<<>>)
  ELSE IF prop.files[1].type = "file" THEN Str(prop.files[1].url)
  ELSE IF prop.files[1].type = "external" THEN Str(prop.files[1].url)
  ELSE Str(<<>>)

getAnyText(prop) ==
  IF prop.type = "absent" THEN Str(<<>>)
  ELSE IF prop.type = "select" /\ prop.ok THEN Str(prop.texts[1])
  ELSE IF prop.type = "multi_select" THEN
    (IF ~prop.ok THEN Throw ELSE Str(JoinComma(prop.texts)))
  ELSE IF prop.type = "rich_text" THEN
    (IF ~prop.ok THEN Throw ELSE Str(Join(prop.texts)))
  ELSE IF prop.type = "title" THEN
    (IF ~prop.ok THEN Throw ELSE Str(Join(prop.texts)))
  ELSE IF prop.type = "number" THEN
    (IF ~prop.ok \/ prop.num = 0 THEN Str(<<>>) ELSE Str(NumText(prop.num)))
  ELSE Str(<<>>)

Access(acc, prop) ==
  CASE acc = "getTitle" -> getTitle(prop)
    [] acc = "getSelect" -> getSelect(prop)
    [] acc = "getMultiSelect" -> getMultiSelect(prop)
    [] acc = "getDate" -> getDate(prop)
    [] acc = "getDateEnd" -> getDateEnd(prop)
    [] acc = "getUrl" -> getUrl(prop)
    [] acc = "getRichText" -> getRichText(prop)
    [] acc = "getFiles" -> getFiles(prop)
    [] acc = "getAnyText" -> getAnyText(prop)

(***************************************************************************)
(* Property-name lookup.  properties is the ordered list of the record's   *)
(* entries [key, val] (Object.entries order), keys pairwise distinct.      *)
(***************************************************************************)
IsSpace(c) == c = " "

RECURSIVE TrimStart(_)
TrimStart(s) ==
  IF s # <<>> /\ IsSpace(Head(s)) THEN TrimStart(Tail(s)) ELSE s

RECURSIVE TrimEnd(_)
TrimEnd(s) ==
  IF s # <<>> /\ IsSpace(s[Len(s)]) THEN TrimEnd(SubSeq(s, 1, Len(s) - 1)) ELSE s

\* String.prototype.trim
Trim(s) == TrimEnd(TrimStart(s))

\* properties[name]: the value stored under exactly this key, else undefined.
GetOwn(properties, name) ==
  IF \E i \in DOMAIN properties : properties[i].key = <<name>>
  THEN properties[CHOOSE i \in DOMAIN properties : properties[i].key = <<name>>].val
  ELSE Absent

RECURSIVE FirstTrimmed(_, _)
FirstTrimmed(properties, name) ==
  IF properties = <<>> THEN Absent
  ELSE IF Trim(Head(properties).key) = <<name>> THEN Head(properties).val
  ELSE FirstTrimmed(Tail(properties), name)

findProp(properties, name) ==
  IF GetOwn(properties, name).type # "absent" THEN GetOwn(properties, name)
  ELSE FirstTrimmed(properties, name)

\* How a copy of parseEvent reads the property called name.
Lookup(v, properties, name) ==
  IF v = "findProp" THEN findProp(properties, name) ELSE GetOwn(properties, name)

(***************************************************************************)
(* Text cleanup: replace(/^[\p{Emoji}\p{Emoji_Presentation}\u200d\ufe0f]+/gu,*)
(* "").trim().                                                           *)
(* "party" stands for an emoji code point such as U+1F389; the digits, "#" *)
(* and "*" have the Unicode property Emoji as well.                        *)
(***************************************************************************)
EmojiClass ==
  {"party", "ZWJ", "VS16", "#", "*", "0", "1", "2", "3", "4", "5", "6", "7", "8", "9"}

RECURSIVE DropLeadingEmoji(_)
DropLeadingEmoji(s) ==
  IF s # <<>> /\ Head(s) \in EmojiClass THEN DropLeadingEmoji(Tail(s)) ELSE s

StripEmoji(s) == Trim(DropLeadingEmoji(s))

RECURSIVE MapStrip(_)
MapStrip(names) ==
  IF names = <<>> THEN <<>> ELSE <<StripEmoji(Head(names))>> \o MapStrip(Tail(names))

(***************************************************************************)
(* a || b || ... || dflt over the candidates <<accessor, property name>>,  *)
(* evaluated left to right; an accessor that raises ends the evaluation.   *)
(***************************************************************************)
RECURSIVE OrChain(_, _, _, _)
OrChain(v, properties, cands, dflt) ==
  IF cands = <<>> THEN dflt
  ELSE LET r == Access(Head(cands)[1], Lookup(v, properties, Head(cands)[2]))
       IN IF r.t = "throw" THEN Throw
          ELSE IF Truthy(r) THEN r
          ELSE OrChain(v, properties, Tail(cands), dflt)

NameCands(v) ==
  IF v = "findProp"
  THEN << <<"getTitle", "jp:ibento-mei">>, <<"getTitle", "Name">>, <<"getTitle", "jp:namae">> >>
  ELSE << <<"getTitle", "jp:ibento-mei">>, <<"getTitle", "Name">>, <<"getTitle", "jp:namae">>,
          <<"getTitle", "title">> >>

AreaCands(v) ==
  IF v = "findProp"
  THEN << <<"getAnyText", "jp:eria">>, <<"getAnyText", "Area">>, <<"getAnyText", "jp:chiiki">> >>
  ELSE << <<"getSelect", "jp:eria">>, <<"getSelect", "Area">>, <<"getSelect", "jp:chiiki">> >>

StartDateCands(v) ==
  CASE v = "findProp" ->
         << <<"getDate", "jp:kaishibi">>, <<"getDate", "jp:kaisaibi">>, <<"getDate", "Start Date">> >>
    [] v = "plain" ->
         << <<"getDate", "jp:kaisaibi(kaishi)">>, <<"getDate", "jp:kaisaibi">>,
            <<"getDate", "jp:kaishibi">>, <<"getDate", "Start Date">>, <<"getDate", "jp:hizuke">> >>
    [] v = "sorted" ->
         << <<"getDate", "jp:kaisaibi(kaishi)">>, <<"getDate", "jp:kaisaibi">>,
            <<"getDate", "Start Date">>, <<"getDate", "jp:hizuke">> >>

EndDateCands(v) ==
  CASE v = "findProp" ->
         << <<"getDateEnd", "jp:kaishibi">>, <<"getDate", "jp:shuryobi">>, <<"getDate", "End Date">> >>
    [] v = "plain" ->
         << <<"getDate", "jp:kaisaibi(shuryo)">>, <<"getDate", "jp:shuryobi">>,
            <<"getDate", "End Date">> >>
    [] v = "sorted" ->
         << <<"getDate", "jp:kaisaibi(shuryo)">>, <<"getDate", "End Date">> >>

CategoryCands(v) ==
  << <<"getMultiSelect", "jp:janru">>, <<"getMultiSelect", "Genre">>,
     <<"getMultiSelect", "jp:kategori">> >>

ImageCands(v) ==
  CASE v = "findProp" ->
         << <<"getFiles", "jp:gazo">>, <<"getFiles", "jp:ibento-gazo">>, <<"getFiles", "Image">> >>
    [] v = "plain" ->
         << <<"getFiles", "jp:ibento-gazo">>, <<"getFiles", "jp:gazo">>, <<"getFiles", "Image">> >>
    [] v = "sorted" ->
         << <<"getFiles", "jp:ibento-gazo">>, <<"getFiles", "jp:gazo">>, <<"getFiles", "Image">>,
            <<"getFiles", "Cover">> >>

DetailUrlCands(v) ==
  << <<"getUrl", "jp:shosai-URL">>, <<"getUrl", "URL">>, <<"getUrl", "jp:rinku">>,
     <<"getRichText", "jp:shosai-URL">> >>

\* const area = rawArea.replace(...).trim()  (findProp copy only)
CleanArea(v, raw) ==
  IF v = "findProp" /\ raw.t = "string" THEN Str(StripEmoji(raw.s)) ELSE raw

\* const categories = rawCategories.map((c) => c.replace(...).trim())
CleanCategories(v, raw) ==
  IF v = "findProp" /\ raw.t = "array" THEN Arr(MapStrip(raw.a)) ELSE raw

\* Mutant of coverUrl: the page cover is used whenever the page has one.
coverUrl_preferCover(imageUrl, cover) ==
  IF cover.type \in {"file", "external"} THEN Str(cover.url) ELSE imageUrl

\* let coverUrl = imageUrl; if (!coverUrl && page.cover) { ... }
coverUrl(imageUrl, cover) ==
  IF ~Truthy(imageUrl) /\ cover.type # "none"
  THEN (IF cover.type \in {"file", "external"} THEN Str(cover.url) ELSE imageUrl)
  ELSE imageUrl

NoEvent ==
  [id |-> 0, name |-> Null, area |-> Null, startDate |-> Null, endDate |-> Null,
   categories |-> Null, imageUrl |-> Null, detailUrl |-> Null, createdAt |-> 0]

\* parseEvent of copy v: [threw, ev]; threw when an accessor raised.
parseEvent(v, pg) ==
  LET p == pg.properties
      name == OrChain(v, p, NameCands(v), Str(<<>>))
      rawArea == OrChain(v, p, AreaCands(v), Str(<<>>))
      startDate == OrChain(v, p, StartDateCands(v), Null)
      endDate == OrChain(v, p, EndDateCands(v), Null)
      rawCategories == OrChain(v, p, CategoryCands(v), Arr(<<>>))
      imageUrl == OrChain(v, p, ImageCands(v), Str(<<>>))
      detailUrl == OrChain(v, p, DetailUrlCands(v), Str(<<>>))
  IN IF \E r \in {name, rawArea, startDate, endDate, rawCategories, imageUrl, detailUrl} :
          r.t = "throw"
     THEN [threw |-> TRUE, ev |-> NoEvent]
     ELSE [threw |-> FALSE,
           ev |-> [id |-> pg.id, name |-> name, area |-> CleanArea(v, rawArea),
                   startDate |-> startDate, endDate |-> endDate,
                   categories |-> CleanCategories(v, rawCategories),
                   imageUrl |-> coverUrl(imageUrl, pg.cover), detailUrl |-> detailUrl,
                   createdAt |-> pg.created_time]]

(***************************************************************************)
(* The request handler.                                                    *)
(***************************************************************************)
PageSize == 100

\* Mutant of ConfigMissing: the check written with && instead of ||.
ConfigMissing_and(e) == ~e.apiKey /\ ~e.dbId

\* !process.env.NOTION_API_KEY || !DATABASE_ID
ConfigMissing(e) == ~e.apiKey \/ ~e.dbId

\* Mutant of ListQuery: the cursor of the previous response is not passed on.
ListQuery_noCursor(v, cursor) ==
  [kind |-> "list", start_cursor |-> "undefined", page_size |-> PageSize,
   sorts |-> (v = "sorted")]

\* The argument of notion.databases.query in the pagination loop.
ListQuery(v, cursor) ==
  [kind |-> "list", start_cursor |-> cursor, page_size |-> PageSize,
   sorts |-> (v = "sorted")]

\* The argument of notion.databases.query in debug mode.
DebugQuery == [kind |-> "debug", start_cursor |-> "undefined", page_size |-> 1, sorts |-> FALSE]

RECURSIVE ParseAll(_, _)
ParseAll(v, results) ==
  IF results = <<>> THEN <<>>
  ELSE <<parseEvent(v, Head(results))>> \o ParseAll(v, Tail(results))

AnyThrew(parsed) == \E i \in DOMAIN parsed : parsed[i].threw

Events(parsed) == [i \in DOMAIN parsed |-> parsed[i].ev]

\* Mutant of FilterNamed: the empty-name filter is left out.
FilterNamed_keepAll(events) == events

\* .filter((e) => e.name)
FilterNamed(events) == SelectSeq(events, LAMBDA e : Truthy(e.name))

RECURSIVE DedupFrom(_, _)
DedupFrom(events, seen) ==
  IF events = <<>> THEN <<>>
  ELSE IF Head(events).name.s \in seen THEN DedupFrom(Tail(events), seen)
  ELSE <<Head(events)>> \o DedupFrom(Tail(events), seen \cup {Head(events).name.s})

\* const seen = new Set(); allEvents.filter(...)  (findProp copy only)
Dedup(v, events) == IF v = "findProp" THEN DedupFrom(events, {}) ELSE events

\* The remediation hint of an error body: only part_000 sends one for upstream
\* errors; the first copy of events.js sends none for missing configuration.
HasHint(v, error) ==
  CASE error = "Missing environment variables" -> v # "findProp"
    [] error \in {"Database not found", "Unauthorized"} -> v = "sorted"
    [] OTHER -> FALSE

NoRes ==
  [status |-> 0, body |-> "none", error |-> "", hint |-> FALSE, message |-> FALSE,
   events |-> <<>>, propertyNames |-> <<>>, cacheControl |-> FALSE, cors |-> FALSE, sent |-> 0]

\* res.setHeader("Access-Control-...") x3, then one res.status(..).json(..) / .end()
Respond(r, status, body, error, hint, message) ==
  [r EXCEPT !.status = status, !.body = body, !.error = error, !.hint = hint,
            !.message = message, !.cors = TRUE, !.sent = r.sent + 1]

\* The catch block of the pagination fetch.
CatchResponse(v, r, code) ==
  CASE code = "object_not_found" ->
         Respond(r, 404, "error", "Database not found", HasHint(v, "Database not found"), FALSE)
    [] code = "unauthorized" ->
         Respond(r, 401, "error", "Unauthorized", HasHint(v, "Unauthorized"), FALSE)
    [] OTHER -> Respond(r, 500, "error", "Failed to fetch events", FALSE, TRUE)

\* After the last page: map, filter, de-duplicate, respond (or catch a raise).
Finish(v, r, results) ==
  LET parsed == ParseAll(v, results)
  IN IF AnyThrew(parsed) THEN CatchResponse(v, r, "TypeError")
     ELSE [Respond(r, 200, "events", "", FALSE, FALSE)
             EXCEPT !.events = Dedup(v, FilterNamed(Events(parsed))),
                    !.cacheControl = TRUE]

(***************************************************************************)
(* Inputs: the records the upstream database may hold and the properties a *)
(* record may carry.                                                       *)
(***************************************************************************)
Entry(key, val) == [key |-> key, val |-> val]

RawPage(id, properties, cover) ==
  [id |-> id, properties |-> properties, cover |-> cover, created_time |-> id]

NoCover == [type |-> "none", url |-> <<>>]
Covers ==
  {NoCover, [type |-> "file", url |-> <<"h", "c">>], [type |-> "external", url |-> <<"x", "c">>]}

Title(frags) == Prop("title", TRUE, frags, <<>>, 0)
Select(name) == Prop("select", TRUE, <<name>>, <<>>, 0)
MultiSelect(names) == Prop("multi_select", TRUE, names, <<>>, 0)
Date(start, end) == Prop("date", TRUE, <<start, end>>, <<>>, 0)
Url(u) == Prop("url", TRUE, <<u>>, <<>>, 0)
RichText(frags) == Prop("rich_text", TRUE, frags, <<>>, 0)
Files(fs) == Prop("files", TRUE, <<>>, fs, 0)
Number(n) == Prop("number", TRUE, <<>>, <<>>, n)
Malformed(type) == Prop(type, FALSE, <<>>, <<>>, 0)

Hosted(u) == [type |-> "file", url |-> u]
External(u) == [type |-> "external", url |-> u]

\* Records of the upstream database, by index.
SampleRecords ==
  << RawPage(1, << Entry(<<"Name">>, Title(<< <<"a">> >>)),
                   Entry(<<"jp:kaisaibi">>, Date(<<"d", "1">>, <<"d", "2">>)),
                   Entry(<<"URL">>, Url(<<"u">>)) >>, NoCover),
     RawPage(2, << Entry(<<"jp:namae">>, Title(<< <<"a">> >>)),
                   Entry(<<"jp:shosai-URL">>, RichText(<< <<"u">>, <<"v">> >>)) >>, NoCover),
     RawPage(3, << Entry(<<"Area">>, Select(<<"party", " ", "m">>)) >>, NoCover),
     RawPage(4, << Entry(<<"Name", " ">>, Title(<< <<"b">> >>)),
                   Entry(<<"jp:eria">>, Number(7)) >>, NoCover),
     RawPage(5, << Entry(<<"Name">>, Malformed("title")) >>, NoCover) >>

Cursors == {"c1", "c2"}
ErrorCodes == {"object_not_found", "unauthorized", "other"}
Methods == {"GET", "OPTIONS", "POST"}

\* Properties a record under parseEvent may carry: key and value.
ImageEntries ==
  { Entry(k, v) :
      k \in { <<"jp:gazo">>, <<"Image">>, <<"Image", " ">> },
      v \in { Files(<< Hosted(<<"h", "1">>) >>),
              Files(<< External(<<"x", "2">>), Hosted(<<"h", "1">>) >>),
              Files(<<>>),
              Malformed("files") } }

AreaEntries ==
  { Entry(k, v) :
      k \in { <<"Area">>, <<" ", "Area">> },
      v \in { Select(<<"party", "VS16", " ", "m">>),
              Select(<<"party", " ", "party", "m">>),
              Title(<< <<"a">> >>) } }

CategoryEntries ==
  { Entry(k, v) :
      k \in { <<"jp:janru">>, <<"Genre">> },
      v \in { MultiSelect(<< <<"party", "k">>, <<"j">> >>), MultiSelect(<<>>) } }

NameEntries == { Entry(<<"Name">>, Title(<< <<"a">> >>)) }

ModelEntries == ImageEntries \cup AreaEntries \cup CategoryEntries \cup NameEntries

BoundedSeq(S, n) == UNION {[1..k -> S] : k \in 0..n}

RecordsOf(idx) == [i \in DOMAIN idx |-> SampleRecords[idx[i]]]

(***************************************************************************)
(* Specification Spec: one invocation of the handler.                      *)
(***************************************************************************)
Init ==
  /\ variant \in Variants
  /\ env \in [apiKey : BOOLEAN, dbId : BOOLEAN]
  /\ req \in [method : Methods, debug : BOOLEAN]
  /\ pc = "start"
  /\ allResults = <<>>
  /\ hasMore = TRUE
  /\ startCursor = "undefined"
  /\ queries = <<>>
  /\ responses = <<>>
  /\ res = NoRes
  /\ page = RawPage(0, <<>>, NoCover)
  /\ event = [threw |-> FALSE, ev |-> NoEvent]

\* Whether this copy of the handler has the debug branch and the request takes it.
DebugMode == variant = "findProp" /\ req.debug

\* if (req.method === "OPTIONS") return res.status(200).end();
Options ==
  /\ pc = "start" /\ req.method = "OPTIONS"
  /\ res' = Respond(res, 200, "end", "", FALSE, FALSE)
  /\ pc' = "done"
  /\ UNCHANGED <<variant, env, req, allResults, hasMore, startCursor, queries, responses,
                 page, event>>

\* if (req.method !== "GET") return res.status(405).json(...)
MethodNotAllowed ==
  /\ pc = "start" /\ req.method \notin {"OPTIONS", "GET"}
  /\ res' = Respond(res, 405, "error", "Method not allowed", FALSE, FALSE)
  /\ pc' = "done"
  /\ UNCHANGED <<variant, env, req, allResults, hasMore, startCursor, queries, responses,
                 page, event>>

MissingConfig ==
  /\ pc = "start" /\ req.method = "GET" /\ ConfigMissing(env)
  /\ res' = Respond(res, 500, "error", "Missing environment variables",
                    HasHint(variant, "Missing environment variables"), FALSE)
  /\ pc' = "done"
  /\ UNCHANGED <<variant, env, req, allResults, hasMore, startCursor, queries, responses,
                 page, event>>

\* Debug mode: the single page_size 1 query is issued and awaited.
StartDebug ==
  /\ pc = "start" /\ req.method = "GET" /\ ~ConfigMissing(env) /\ DebugMode
  /\ queries' = Append(queries, DebugQuery)
  /\ res' = [res EXCEPT !.cors = TRUE]
  /\ pc' = "awaitDebug"
  /\ UNCHANGED <<variant, env, req, allResults, hasMore, startCursor, responses, page, event>>

DebugResponse ==
  /\ pc = "awaitDebug"
  /\ \E idx \in BoundedSeq(DOMAIN SampleRecords, 1) :
       LET results == RecordsOf(idx)
       IN /\ responses' = Append(responses,
                 [ok |-> TRUE, code |-> "", results |-> results, has_more |-> FALSE,
                  next_cursor |-> "null"])
          /\ res' = IF results = <<>>
                    THEN Respond(res, 200, "message", "", FALSE, TRUE)
                    ELSE [Respond(res, 200, "debug", "", FALSE, FALSE)
                            EXCEPT !.propertyNames =
                              [i \in DOMAIN results[1].properties |->
                                 results[1].properties[i].key]]
  /\ pc' = "done"
  /\ UNCHANGED <<variant, env, req, allResults, hasMore, startCursor, queries, page, event>>

DebugFailure ==
  /\ pc = "awaitDebug"
  /\ \E code \in ErrorCodes :
       responses' = Append(responses,
           [ok |-> FALSE, code |-> code, results |-> <<>>, has_more |-> FALSE,
            next_cursor |-> "null"])
  /\ res' = Respond(res, 500, "error", "e.message", FALSE, FALSE)
  /\ pc' = "done"
  /\ UNCHANGED <<variant, env, req, allResults, hasMore, startCursor, queries, page, event>>

\* let allResults = []; hasMore = true; startCursor = undefined; first query issued.
StartFetch ==
  /\ pc = "start" /\ req.method = "GET" /\ ~ConfigMissing(env) /\ ~DebugMode
  /\ allResults' = <<>>
  /\ hasMore' = TRUE
  /\ startCursor' = "undefined"
  /\ queries' = Append(queries, ListQuery(variant, "undefined"))
  /\ res' = [res EXCEPT !.cors = TRUE]
  /\ pc' = "awaitPage"
  /\ UNCHANGED <<variant, env, req, responses, page, event>>

\* A response with has_more = true: append, loop, issue the next query.
PageMore ==
  /\ pc = "awaitPage" /\ Len(queries) < MaxQueries
  /\ \E idx \in BoundedSeq(DOMAIN SampleRecords, MaxResults - Len(allResults)) :
     \E cursor \in Cursors :
       /\ responses' = Append(responses,
              [ok |-> TRUE, code |-> "", results |-> RecordsOf(idx), has_more |-> TRUE,
               next_cursor |-> cursor])
       /\ allResults' = allResults \o RecordsOf(idx)
       /\ hasMore' = TRUE
       /\ startCursor' = cursor
       /\ queries' = Append(queries, ListQuery(variant, cursor))
  /\ UNCHANGED <<variant, env, req, pc, res, page, event>>

\* A response with has_more = false: append, leave the loop, assemble and respond.
PageLast ==
  /\ pc = "awaitPage"
  /\ \E idx \in BoundedSeq(DOMAIN SampleRecords, MaxResults - Len(allResults)) :
       /\ responses' = Append(responses,
              [ok |-> TRUE, code |-> "", results |-> RecordsOf(idx), has_more |-> FALSE,
               next_cursor |-> "null"])
       /\ allResults' = allResults \o RecordsOf(idx)
       /\ res' = Finish(variant, res, allResults \o RecordsOf(idx))
  /\ hasMore' = FALSE
  /\ startCursor' = "null"
  /\ pc' = "done"
  /\ UNCHANGED <<variant, env, req, queries, page, event>>

\* The awaited query rejects: the catch block responds.
PageFailure ==
  /\ pc = "awaitPage"
  /\ \E code \in ErrorCodes :
       /\ responses' = Append(responses,
              [ok |-> FALSE, code |-> code, results |-> <<>>, has_more |-> FALSE,
               next_cursor |-> "null"])
       /\ res' = CatchResponse(variant, res, code)
  /\ pc' = "done"
  /\ UNCHANGED <<variant, env, req, allResults, hasMore, startCursor, queries, page, event>>

Next ==
  \/ Options
  \/ MethodNotAllowed
  \/ MissingConfig
  \/ StartDebug
  \/ DebugResponse
  \/ DebugFailure
  \/ StartFetch
  \/ PageMore
  \/ PageLast
  \/ PageFailure

Spec == Init /\ [][Next]_vars

(***************************************************************************)
(* Specification ParseSpec: parseEvent applied to one record, built one    *)
(* property at a time from ModelEntries.                                   *)
(***************************************************************************)
ParseInit ==
  /\ variant \in Variants
  /\ env = [apiKey |-> TRUE, dbId |-> TRUE]
  /\ req = [method |-> "GET", debug |-> FALSE]
  /\ pc = "build"
  /\ allResults = <<>>
  /\ hasMore = TRUE
  /\ startCursor = "undefined"
  /\ queries = <<>>
  /\ responses = <<>>
  /\ res = NoRes
  /\ \E cover \in Covers : page = RawPage(1, <<>>, cover)
  /\ event = [threw |-> FALSE, ev |-> NoEvent]

AddProperty ==
  /\ pc = "build" /\ Len(page.properties) < MaxProps
  /\ \E e \in ModelEntries :
       /\ \A i \in DOMAIN page.properties : page.properties[i].key # e.key
       /\ page' = [page EXCEPT !.properties = Append(@, e)]
  /\ UNCHANGED <<variant, env, req, pc, allResults, hasMore, startCursor, queries,
                 responses, res, event>>

Parse ==
  /\ pc = "build"
  /\ event' = parseEvent(variant, page)
  /\ pc' = "parsed"
  /\ UNCHANGED <<variant, env, req, allResults, hasMore, startCursor, queries,
                 responses, res, page>>

ParseNext == AddProperty \/ Parse

ParseSpec == ParseInit /\ [][ParseNext]_vars

(***************************************************************************)
(* Properties of the handler (specification Spec).                         *)
(***************************************************************************)
Fetching == queries # <<>> /\ queries[1].kind = "list"

Success == pc = "done" /\ res.status = 200 /\ res.body = "events"

ResolvedName(rec) == parseEvent(variant, rec).ev.name

\* Whether some candidate name property of rec yields a non-empty title.
YieldsTitle(rec) ==
  \E i \in DOMAIN NameCands(variant) :
    Truthy(getTitle(Lookup(variant, rec.properties, NameCands(variant)[i][2])))

RECURSIVE ConcatResults(_)
ConcatResults(resps) ==
  IF resps = <<>> THEN <<>> ELSE Head(resps).results \o ConcatResults(Tail(resps))

\* C1: the events of a 200 response hold at most one event per name, and the
\* event kept for a name comes from the first fetched record with that name.
DedupFirstWins ==
  Success =>
    /\ \A i, j \in DOMAIN res.events :
         i # j => res.events[i].name # res.events[j].name
    /\ \A i \in DOMAIN res.events :
         \E k \in DOMAIN allResults :
           /\ ResolvedName(allResults[k]) = res.events[i].name
           /\ \A m \in 1..(k - 1) : ResolvedName(allResults[m]) # res.events[i].name
           /\ res.events[i].id = allResults[k].id

\* C2: every event of a 200 response has a non-empty name; a record none of
\* whose candidate name properties yields a non-empty title is left out, and a
\* record with a non-empty resolved name is not removed by the empty-name filter.
NamesNonEmpty ==
  Success =>
    /\ \A i \in DOMAIN res.events :
         res.events[i].name.t = "string" /\ res.events[i].name.s # <<>>
    /\ \A k \in DOMAIN allResults :
         IF YieldsTitle(allResults[k])
         THEN \E i \in DOMAIN res.events : res.events[i].name = ResolvedName(allResults[k])
         ELSE /\ ResolvedName(allResults[k]) = Str(<<>>)
              /\ \A i \in DOMAIN res.events : res.events[i].id # allResults[k].id

NamesNonEmptyWitness ==
  /\ Success
  /\ res.events # <<>>
  /\ \E k \in DOMAIN allResults : ~YieldsTitle(allResults[k])

\* The queries issued so far are sequential, of page size 100, chained by cursor,
\* none follows a response with has_more = false, and the records held are the
\* concatenation of the responses, unfiltered, until the response is sent.
SequentialFetch ==
  /\ Len(queries) <= Len(responses) + 1
  /\ \A i \in DOMAIN queries :
       /\ queries[i].page_size = PageSize
       /\ queries[i].start_cursor =
            IF i = 1 THEN "undefined" ELSE responses[i - 1].next_cursor
       /\ i > 1 => responses[i - 1].ok /\ responses[i - 1].has_more
  /\ \A i \in DOMAIN responses : ~responses[i].has_more => Len(queries) = i
  /\ pc # "done" => res.events = <<>>

\* The pagination as a whole: sequential chained queries, and the list that is
\* normalised and filtered is the concatenation of all responses' results.
PaginatedFetch ==
  /\ SequentialFetch
  /\ allResults = ConcatResults(responses)
  /\ Success =>
       res.events = Dedup(variant, FilterNamed(Events(ParseAll(variant,
                             ConcatResults(responses)))))

\* C3 (as amended): during a GET request that does not take the debug branch,
\* the queries are issued one after another with page size 100, each after the
\* first carrying the next_cursor of the preceding response, none is issued
\* after the first response with has_more = false, and the list that is
\* normalised and filtered is the concatenation of all responses' results.
PaginationSequential ==
  (req.method = "GET" /\ ~DebugMode) => PaginatedFetch

PaginationSequentialWitness ==
  /\ Success
  /\ Len(responses) >= 2
  /\ \A i \in DOMAIN responses : responses[i].results # <<>>
  /\ res.events # <<>>

\* C3 (as stated): the same for every GET request, the debug request included.
PaginationSequentialAnyGet ==
  req.method = "GET" => PaginatedFetch

\* C4: a GET request with the API credential or the database identifier absent
\* is answered 500 with the configuration error, and no upstream query is issued.
MissingConfigNoQuery ==
  (req.method = "GET" /\ (~env.apiKey \/ ~env.dbId)) =>
    /\ queries = <<>>
    /\ pc \in {"start", "done"}
    /\ pc = "done" =>
         /\ res.status = 500
         /\ res.error = "Missing environment variables"
         /\ res.sent = 1

MissingConfigNoQueryWitness ==
  /\ pc = "done" /\ req.method = "GET" /\ req.debug
  /\ env.apiKey /\ ~env.dbId
  /\ res.status = 500

\* C5: when a query of the pagination fails, no further query is made and the
\* one response sent is an error without events and without Cache-Control:
\* 404 with a hint for "not found", 401 with a hint for "unauthorized", 500
\* with the underlying message otherwise.
UpstreamFailureResponse ==
  (pc = "done" /\ Fetching /\ ~responses[Len(responses)].ok) =>
    LET code == responses[Len(responses)].code
    IN /\ Len(queries) = Len(responses)
       /\ res.sent = 1
       /\ res.events = <<>>
       /\ ~res.cacheControl
       /\ code = "object_not_found" => res.status = 404 /\ res.hint
       /\ code = "unauthorized" => res.status = 401 /\ res.hint
       /\ code \notin {"object_not_found", "unauthorized"} =>
            res.status = 500 /\ res.message

Accessors ==
  {"getTitle", "getSelect", "getMultiSelect", "getDate", "getDateEnd", "getUrl",
   "getRichText", "getFiles", "getAnyText"}

\* C9: no accessor raises on a property of a fetched record, whatever its tag
\* and payload, and a fetch whose queries all succeeded ends in a 200 response.
AccessorsNeverRaise ==
  /\ \A k \in DOMAIN allResults :
       \A i \in DOMAIN allResults[k].properties :
         \A acc \in Accessors :
           Access(acc, allResults[k].properties[i].val).t # "throw"
  /\ (pc = "done" /\ Fetching /\ \A i \in DOMAIN responses : responses[i].ok) =>
       res.status = 200

(***************************************************************************)
(* Properties of parseEvent (specification ParseSpec).                     *)
(***************************************************************************)
Parsed == pc = "parsed" /\ ~event.threw

\* What each candidate image property of the record yields, in candidate order.
ImageYields ==
  [i \in DOMAIN ImageCands(variant) |->
     getFiles(Lookup(variant, page.properties, ImageCands(variant)[i][2]))]

\* C6: when no candidate image property yields a non-empty URL, imageUrl is the
\* cover URL (of a file or an external cover) and "" without a cover; when one
\* does, imageUrl is the first such URL and the cover is not used.
ImageUrlCoverFallback ==
  Parsed =>
    IF \E i \in DOMAIN ImageYields : Truthy(ImageYields[i])
    THEN \E i \in DOMAIN ImageYields :
           /\ Truthy(ImageYields[i])
           /\ \A j \in 1..(i - 1) : ~Truthy(ImageYields[j])
           /\ event.ev.imageUrl = ImageYields[i]
    ELSE /\ page.cover.type = "none" => event.ev.imageUrl = Str(<<>>)
         /\ page.cover.type \in {"file", "external"} =>
              event.ev.imageUrl = Str(page.cover.url)

ImageUrlCoverFallbackWitness ==
  /\ Parsed
  /\ page.cover.type = "external"
  /\ \E i \in DOMAIN page.properties : page.properties[i].val.type = "files"
  /\ \A i \in DOMAIN ImageYields : ~Truthy(ImageYields[i])
  /\ event.ev.imageUrl = Str(page.cover.url)

NoLeadingGlyph(s) == s = <<>> \/ (Head(s) \notin EmojiClass /\ ~IsSpace(Head(s)))

\* C7: area and every category equal the resolved raw text with its leading
\* run of emoji code points removed and trimmed, and none begins with such a
\* code point or with whitespace.
EmojiStripped ==
  Parsed =>
    LET rawArea == OrChain(variant, page.properties, AreaCands(variant), Str(<<>>))
        rawCategories == OrChain(variant, page.properties, CategoryCands(variant), Arr(<<>>))
    IN /\ event.ev.area = Str(StripEmoji(rawArea.s))
       /\ event.ev.categories = Arr(MapStrip(rawCategories.a))
       /\ NoLeadingGlyph(event.ev.area.s)
       /\ \A i \in DOMAIN event.ev.categories.a : NoLeadingGlyph(event.ev.categories.a[i])

\* Non-empty / non-null content: a non-empty string or a non-empty list.
NonEmpty(r) == (r.t = "string" /\ r.s # <<>>) \/ (r.t = "array" /\ r.a # <<>>)

RECURSIVE FirstNonEmpty(_, _)
FirstNonEmpty(cands, dflt) ==
  IF cands = <<>> THEN dflt
  ELSE LET r == Access(Head(cands)[1], Lookup(variant, page.properties, Head(cands)[2]))
       IN IF NonEmpty(r) THEN r ELSE FirstNonEmpty(Tail(cands), dflt)

\* C8: every field is the result of the first candidate whose accessor result
\* is non-empty / non-null; a candidate yielding empty content is skipped.
FirstNonEmptyCandidate ==
  Parsed =>
    /\ event.ev.name = FirstNonEmpty(NameCands(variant), Str(<<>>))
    /\ event.ev.area = CleanArea(variant, FirstNonEmpty(AreaCands(variant), Str(<<>>)))
    /\ event.ev.startDate = FirstNonEmpty(StartDateCands(variant), Null)
    /\ event.ev.endDate = FirstNonEmpty(EndDateCands(variant), Null)
    /\ event.ev.categories =
         CleanCategories(variant, FirstNonEmpty(CategoryCands(variant), Arr(<<>>)))
    /\ event.ev.detailUrl = FirstNonEmpty(DetailUrlCands(variant), Str(<<>>))
    /\ NonEmpty(FirstNonEmpty(ImageCands(variant), Str(<<>>))) =>
         event.ev.imageUrl = FirstNonEmpty(ImageCands(variant), Str(<<>>))

CandidateNames ==
  {c[2] : c \in UNION {{cands[i] : i \in DOMAIN cands} :
     cands \in {NameCands(variant), AreaCands(variant), StartDateCands(variant),
                EndDateCands(variant), CategoryCands(variant), ImageCands(variant),
                DetailUrlCands(variant)}}}

\* C10: for every candidate name, a property stored under a key equal to the
\* name after trimming is found, an exactly equal key wins over a trimmed-equal
\* one, and nothing is found only when no key matches.
TrimmedKeyLookup ==
  pc = "parsed" =>
    \A name \in CandidateNames :
      LET got == Lookup(variant, page.properties, name)
          exact == {i \in DOMAIN page.properties : page.properties[i].key = <<name>>}
          trimmed == {i \in DOMAIN page.properties : Trim(page.properties[i].key) = <<name>>}
      IN /\ exact # {} => \E i \in exact : got = page.properties[i].val
         /\ (exact = {} /\ trimmed # {}) => \E i \in trimmed : got = page.properties[i].val
         /\ trimmed = {} <=> got = Absent

====
